---------------------------- MODULE Spec2Model ----------------------------
(***************************************************************************)
(* A model of the JsonViewer component (src/app/json-viewer/json-viewer.ts) *)
(* of amkbabu/json-editor: the display line model, the edit line model,    *)
(* their visible projections, collapse/expand, single-line edits,          *)
(* reconstruction + validation, and the asynchronous file load.            *)
(*                                                                         *)
(* Texts that are parsed (file contents, rawJsonText, edit line contents)  *)
(* are sequences of one-character strings, so that JSON.parse and          *)
(* JSON.stringify are modelled by what they do to characters.  Display     *)
(* line contents, which the component only ever builds by concatenation    *)
(* and never parses, are TLA+ strings.                                     *)
(***************************************************************************)
EXTENDS Naturals, Sequences, FiniteSets, TLC

(***************************************************************************)
(* Bounds of the model.                                                    *)
(***************************************************************************)
\* Largest number of nodes (scalars + containers) of a generated JSON value.
MaxNodes == 4
\* Largest number of file reads outstanding at once.
MaxPending == 2
\* Largest number of direct single-line edits in one edit session.
MaxEdits == 1

(***************************************************************************)
(* Characters and texts.                                                   *)
(***************************************************************************)
QUOTE == "\""
BSLASH == "\\"
NL == "\n"
SP == " "

Digits == {"0", "1", "2", "3", "4", "5", "6", "7", "8", "9"}

\* JSON whitespace (of the characters the model's texts use).
JsonWs == {SP, NL}

RECURSIVE Str(_)
\* The string made of the characters of a text.
Str(cs) == IF cs = <<>> THEN "" ELSE Head(cs) \o Str(Tail(cs))

RECURSIVE Concat(_)
\* The concatenation of a sequence of texts.
Concat(ts) == IF ts = <<>> THEN <<>> ELSE Head(ts) \o Concat(Tail(ts))

RECURSIVE JoinNl(_)
\* Array.prototype.join('\n') on a sequence of texts.
JoinNl(ts) ==
  IF ts = <<>> THEN <<>>
  ELSE IF Len(ts) = 1 THEN ts[1]
  ELSE ts[1] \o <<NL>> \o JoinNl(Tail(ts))

RECURSIVE IndentChars(_)
\* '  '.repeat(level) as a text.
IndentChars(level) == IF level = 0 THEN <<>> ELSE <<SP, SP>> \o IndentChars(level - 1)

RECURSIVE IndentStr(_)
\* '  '.repeat(level) as a string.
IndentStr(level) == IF level = 0 THEN "" ELSE "  " \o IndentStr(level - 1)

\* String.prototype.trim() leaves something.
TrimNonEmpty(cs) == \E i \in 1..Len(cs) : cs[i] \notin JsonWs

\* String.prototype.endsWith('.json') on a file name.
EndsWithJson(name) ==
  /\ Len(name) >= 5
  /\ SubSeq(name, Len(name) - 4, Len(name)) = <<".", "j", "s", "o", "n">>

(***************************************************************************)
(* JSON values.  t is the type; s the characters of a string, or the       *)
(* canonical decimal digits of a number; kids the members of a container   *)
(* in the order Object.keys / forEach visits them, k the member's key      *)
(* (empty for array items).                                                *)
(***************************************************************************)
NullV == [t |-> "null", s |-> <<>>, kids |-> <<>>]
BoolV(b) == [t |-> IF b THEN "true" ELSE "false", s |-> <<>>, kids |-> <<>>]
NumV(ds) == [t |-> "number", s |-> ds, kids |-> <<>>]
StrV(cs) == [t |-> "string", s |-> cs, kids |-> <<>>]
ArrV(items) ==
  [t |-> "array", s |-> <<>>,
   kids |-> [i \in 1..Len(items) |-> [k |-> <<>>, v |-> items[i]]]]
ObjV(members) == [t |-> "object", s |-> <<>>, kids |-> members]

IsObject(v) == v.t = "object"
IsArray(v) == v.t = "array"

RECURSIVE DeepEqual(_, _)
\* Deep equality of two JSON values: arrays by position, objects by key.
DeepEqual(a, b) ==
  /\ a.t = b.t
  /\ a.s = b.s
  /\ Len(a.kids) = Len(b.kids)
  /\ IF a.t = "object"
     THEN \A i \in 1..Len(a.kids) :
            \E j \in 1..Len(b.kids) :
              /\ a.kids[i].k = b.kids[j].k
              /\ DeepEqual(a.kids[i].v, b.kids[j].v)
     ELSE \A i \in 1..Len(a.kids) : DeepEqual(a.kids[i].v, b.kids[i].v)

(***************************************************************************)
(* JSON.stringify.                                                         *)
(***************************************************************************)
\* The escape JSON.stringify writes for one character of a string.
EscapeChar(c) ==
  IF c = QUOTE THEN <<BSLASH, QUOTE>>
  ELSE IF c = BSLASH THEN <<BSLASH, BSLASH>>
  ELSE IF c = NL THEN <<BSLASH, "n">>
  ELSE <<c>>

\* JSON.stringify of a string: quoted, interior characters escaped.
QuoteJson(cs) ==
  <<QUOTE>> \o Concat([i \in 1..Len(cs) |-> EscapeChar(cs[i])]) \o <<QUOTE>>

\* JSON.stringify of a scalar.
StringifyScalar(v) ==
  IF v.t = "string" THEN QuoteJson(v.s)
  ELSE IF v.t = "number" THEN v.s
  ELSE IF v.t = "true" THEN <<"t", "r", "u", "e">>
  ELSE IF v.t = "false" THEN <<"f", "a", "l", "s", "e">>
  ELSE <<"n", "u", "l", "l">>

RECURSIVE StringifyAt(_, _)
\* JSON.stringify(v, null, 2) of a value nested `level` deep.
StringifyAt(v, level) ==
  IF ~(IsObject(v) \/ IsArray(v)) THEN StringifyScalar(v)
  ELSE
    LET open == IF IsObject(v) THEN "{" ELSE "["
        close == IF IsObject(v) THEN "}" ELSE "]"
        n == Len(v.kids)
        member(i) ==
          IndentChars(level + 1)
          \o (IF IsObject(v) THEN QuoteJson(v.kids[i].k) \o <<":", SP>> ELSE <<>>)
          \o StringifyAt(v.kids[i].v, level + 1)
          \o (IF i < n THEN <<",">> ELSE <<>>)
          \o <<NL>>
    IN IF n = 0 THEN <<open, close>>
       ELSE <<open, NL>> \o Concat([i \in 1..n |-> member(i)])
            \o IndentChars(level) \o <<close>>

\* JSON.stringify(v, null, 2).
Stringify2(v) == StringifyAt(v, 0)

(***************************************************************************)
(* JSON.parse, by recursive descent over the characters.  A result is      *)
(* [ok, v, i, err]: the value and the index after it, or the message of    *)
(* the SyntaxError (V8's wording).  The grammar covered is the one over    *)
(* the model's characters: objects, arrays, strings with the escapes       *)
(* \" \\ \/ \n \t \r \f, non-negative integers, true, false, null.         *)
(***************************************************************************)
ParseFail(msg) == [ok |-> FALSE, v |-> NullV, i |-> 0, err |-> msg]
ParseOk(v, i) == [ok |-> TRUE, v |-> v, i |-> i, err |-> ""]

\* The SyntaxError for the character at index i (1-based) of text t.
UnexpectedAt(t, i) ==
  IF i > Len(t) THEN ParseFail("Unexpected end of JSON input")
  ELSE ParseFail("Unexpected token " \o t[i] \o " in JSON at position "
                 \o ToString(i - 1))

RECURSIVE SkipWs(_, _)
SkipWs(t, i) == IF i <= Len(t) /\ t[i] \in JsonWs THEN SkipWs(t, i + 1) ELSE i

DigitVal(c) == CHOOSE n \in 0..9 : ToString(n) = c

\* A canonical array index: the keys JavaScript objects enumerate first,
\* in ascending numeric order.
IsIndexKey(k) ==
  /\ Len(k) >= 1
  /\ \A i \in 1..Len(k) : k[i] \in Digits
  /\ (Len(k) = 1 \/ k[1] # "0")

RECURSIVE DigitsLess(_, _)
DigitsLess(a, b) ==
  IF Len(a) # Len(b) THEN Len(a) < Len(b)
  ELSE IF a = <<>> THEN FALSE
  ELSE IF Head(a) # Head(b) THEN DigitVal(Head(a)) < DigitVal(Head(b))
  ELSE DigitsLess(Tail(a), Tail(b))

\* obj[k] = v on a JavaScript object: a key already present keeps its place,
\* a new index key goes among the index keys, any other new key goes last.
ObjPut(kids, k, v) ==
  IF \E j \in 1..Len(kids) : kids[j].k = k
  THEN [j \in 1..Len(kids) |->
          IF kids[j].k = k THEN [k |-> k, v |-> v] ELSE kids[j]]
  ELSE IF IsIndexKey(k)
  THEN LET before == SelectSeq(kids, LAMBDA m : IsIndexKey(m.k) /\ DigitsLess(m.k, k))
           after == SelectSeq(kids, LAMBDA m : ~(IsIndexKey(m.k) /\ DigitsLess(m.k, k)))
       IN before \o <<[k |-> k, v |-> v]>> \o after
  ELSE Append(kids, [k |-> k, v |-> v])

RECURSIVE ParseStringBody(_, _, _)
\* The rest of a string literal whose opening quote is before index i.
ParseStringBody(t, i, acc) ==
  IF i > Len(t) THEN UnexpectedAt(t, i)
  ELSE IF t[i] = QUOTE THEN ParseOk(StrV(acc), i + 1)
  ELSE IF t[i] = BSLASH THEN
    IF i + 1 > Len(t) THEN UnexpectedAt(t, i + 1)
    ELSE IF t[i + 1] \in {QUOTE, BSLASH, "/"}
      THEN ParseStringBody(t, i + 2, Append(acc, t[i + 1]))
    ELSE IF t[i + 1] = "n" THEN ParseStringBody(t, i + 2, Append(acc, NL))
    ELSE IF t[i + 1] = "t" THEN ParseStringBody(t, i + 2, Append(acc, "\t"))
    ELSE IF t[i + 1] = "r" THEN ParseStringBody(t, i + 2, Append(acc, "\r"))
    ELSE IF t[i + 1] = "f" THEN ParseStringBody(t, i + 2, Append(acc, "\f"))
    ELSE UnexpectedAt(t, i + 1)
  ELSE IF t[i] \in {NL, "\t", "\r", "\f"} THEN UnexpectedAt(t, i)
  ELSE ParseStringBody(t, i + 1, Append(acc, t[i]))

RECURSIVE ParseDigits(_, _)
\* The index after the run of digits that starts at i.
ParseDigits(t, i) ==
  IF i <= Len(t) /\ t[i] \in Digits THEN ParseDigits(t, i + 1) ELSE i

\* A number literal starting at the digit at index i.
ParseNumber(t, i) ==
  LET j == IF t[i] = "0" THEN i + 1 ELSE ParseDigits(t, i)
  IN ParseOk(NumV(SubSeq(t, i, j - 1)), j)

\* One of the literals true, false, null, expected at index i.
ParseLiteral(t, i, word, v) ==
  LET n == Len(word)
      bad == CHOOSE j \in 1..(n + 1) :
               /\ (j = n + 1 \/ i + j - 1 > Len(t) \/ t[i + j - 1] # word[j])
               /\ \A h \in 1..(j - 1) : i + h - 1 <= Len(t) /\ t[i + h - 1] = word[h]
  IN IF bad = n + 1 THEN ParseOk(v, i + n) ELSE UnexpectedAt(t, i + bad - 1)

RECURSIVE ParseValue(_, _)
RECURSIVE ParseMembers(_, _, _)
RECURSIVE ParseElements(_, _, _)

\* A value starting at or after index i0.
ParseValue(t, i0) ==
  LET i == SkipWs(t, i0)
  IN IF i > Len(t) THEN UnexpectedAt(t, i)
     ELSE IF t[i] = "{" THEN
       LET j == SkipWs(t, i + 1)
       IN IF j <= Len(t) /\ t[j] = "}" THEN ParseOk(ObjV(<<>>), j + 1)
          ELSE ParseMembers(t, j, <<>>)
     ELSE IF t[i] = "[" THEN
       LET j == SkipWs(t, i + 1)
       IN IF j <= Len(t) /\ t[j] = "]" THEN ParseOk(ArrV(<<>>), j + 1)
          ELSE ParseElements(t, j, <<>>)
     ELSE IF t[i] = QUOTE THEN ParseStringBody(t, i + 1, <<>>)
     ELSE IF t[i] \in Digits THEN ParseNumber(t, i)
     ELSE IF t[i] = "t" THEN ParseLiteral(t, i, <<"t", "r", "u", "e">>, BoolV(TRUE))
     ELSE IF t[i] = "f" THEN ParseLiteral(t, i, <<"f", "a", "l", "s", "e">>, BoolV(FALSE))
     ELSE IF t[i] = "n" THEN ParseLiteral(t, i, <<"n", "u", "l", "l">>, NullV)
     ELSE UnexpectedAt(t, i)

\* The members of an object from index i (a key is expected there) on.
ParseMembers(t, i, kids) ==
  IF i > Len(t) \/ t[i] # QUOTE THEN UnexpectedAt(t, i)
  ELSE
    LET key == ParseStringBody(t, i + 1, <<>>)
    IN IF ~key.ok THEN key
       ELSE
         LET c == SkipWs(t, key.i)
         IN IF c > Len(t) \/ t[c] # ":" THEN UnexpectedAt(t, c)
            ELSE
              LET val == ParseValue(t, c + 1)
              IN IF ~val.ok THEN val
                 ELSE
                   LET d == SkipWs(t, val.i)
                       kids2 == ObjPut(kids, key.v.s, val.v)
                   IN IF d > Len(t) THEN UnexpectedAt(t, d)
                      ELSE IF t[d] = "}" THEN ParseOk(ObjV(kids2), d + 1)
                      ELSE IF t[d] = "," THEN ParseMembers(t, SkipWs(t, d + 1), kids2)
                      ELSE UnexpectedAt(t, d)

\* The items of an array from index i (a value is expected there) on.
ParseElements(t, i, items) ==
  LET val == ParseValue(t, i)
  IN IF ~val.ok THEN val
     ELSE
       LET d == SkipWs(t, val.i)
           items2 == Append(items, val.v)
       IN IF d > Len(t) THEN UnexpectedAt(t, d)
          ELSE IF t[d] = "]" THEN ParseOk(ArrV(items2), d + 1)
          ELSE IF t[d] = "," THEN ParseElements(t, SkipWs(t, d + 1), items2)
          ELSE UnexpectedAt(t, d)

\* JSON.parse(text): the value, or the SyntaxError's message.
JsonParse(t) ==
  LET r == ParseValue(t, 1)
  IN IF ~r.ok THEN r
     ELSE LET j == SkipWs(t, r.i)
          IN IF j <= Len(t) THEN UnexpectedAt(t, j) ELSE r

(***************************************************************************)
(* The line record (interface JsonLine).  id and parentId are the strings  *)
(* the component generates ("line-0", "edit-3"); a null parentId is        *)
(* NoParent.  originalKey is null or a text: [null, s].  content is a      *)
(* string in the display model and a text in the edit model.               *)
(***************************************************************************)
NoParent == "null"
NullKey == [null |-> TRUE, s |-> <<>>]
Key(cs) == [null |-> FALSE, s |-> cs]

\* JavaScript truthiness of an originalKey: null and '' are falsy.
KeyTruthy(key) == ~key.null /\ key.s # <<>>

\* The key a container passes down for its i-th member: k for an object's
\* property, null for an array's item.
MemberKey(v, i) == IF IsObject(v) THEN Key(v.kids[i].k) ELSE NullKey

\* A container that passes its own level down to its members.
ChildLevelSame(level) == level

\* The level a container passes down to its members.
ChildLevel(level) == level + 1

\* An open line that does not record how many members it has.
OpenLineNoCount(id, content, level, parentId, key, v) ==
  [id |-> id, content |-> content, level |-> level, hasToggle |-> TRUE,
   isCollapsed |-> FALSE, parentId |-> parentId, lineNumber |-> 0,
   isClosing |-> FALSE, originalKey |-> key, isArray |-> IsArray(v),
   isObject |-> IsObject(v), childCount |-> 0]

OpenLine(id, content, level, parentId, key, v) ==
  [id |-> id, content |-> content, level |-> level, hasToggle |-> TRUE,
   isCollapsed |-> FALSE, parentId |-> parentId, lineNumber |-> 0,
   isClosing |-> FALSE, originalKey |-> key, isArray |-> IsArray(v),
   isObject |-> IsObject(v), childCount |-> Len(v.kids)]

\* A closing line pushed one level too deep.
CloseLineDeeper(id, content, level, parentId) ==
  [id |-> id, content |-> content, level |-> level + 1, hasToggle |-> FALSE,
   isCollapsed |-> FALSE, parentId |-> parentId, lineNumber |-> 0,
   isClosing |-> TRUE, originalKey |-> NullKey, isArray |-> FALSE,
   isObject |-> FALSE, childCount |-> 0]

CloseLine(id, content, level, parentId) ==
  [id |-> id, content |-> content, level |-> level, hasToggle |-> FALSE,
   isCollapsed |-> FALSE, parentId |-> parentId, lineNumber |-> 0,
   isClosing |-> TRUE, originalKey |-> NullKey, isArray |-> FALSE,
   isObject |-> FALSE, childCount |-> 0]

\* A scalar line that offers a toggle.
ScalarLineWithToggle(id, content, level, parentId, key) ==
  [id |-> id, content |-> content, level |-> level, hasToggle |-> TRUE,
   isCollapsed |-> FALSE, parentId |-> parentId, lineNumber |-> 0,
   isClosing |-> FALSE, originalKey |-> key, isArray |-> FALSE,
   isObject |-> FALSE, childCount |-> 0]

\* The line pushed for a primitive value.
ScalarLine(id, content, level, parentId, key) ==
  [id |-> id, content |-> content, level |-> level, hasToggle |-> FALSE,
   isCollapsed |-> FALSE, parentId |-> parentId, lineNumber |-> 0,
   isClosing |-> FALSE, originalKey |-> key, isArray |-> FALSE,
   isObject |-> FALSE, childCount |-> 0]

\* lines.find(l => l.id === id): the index of the first such line, 0 if none.
FindLine(lines, id) ==
  IF \E i \in 1..Len(lines) : lines[i].id = id
  THEN CHOOSE i \in 1..Len(lines) :
         /\ lines[i].id = id
         /\ \A j \in 1..(i - 1) : lines[j].id # id
  ELSE 0

(***************************************************************************)
(* parseAndDisplay: the display flattener.                                 *)
(***************************************************************************)
\* generateId of parseAndDisplay.
DisplayId(n) == "line-" \o ToString(n)

\* The key part of a display line: the key, raw, inside its markup.
DisplayKeyPart(s) ==
  "<span class=\"key\">\"" \o Str(s) \o "\"</span><span class=\"colon\">: </span>"

DisplayComma == "<span class=\"comma\">,</span>"

\* The markup of a primitive value in a display line.
DisplayScalar(v) ==
  IF v.t = "string" THEN "<span class=\"value-string\">\"" \o Str(v.s) \o "\"</span>"
  ELSE IF v.t = "number" THEN "<span class=\"value-number\">" \o Str(v.s) \o "</span>"
  ELSE IF v.t \in {"true", "false"} THEN "<span class=\"value-boolean\">" \o v.t \o "</span>"
  ELSE "<span class=\"value-null\">null</span>"

\* lastLine.content += comma, on the last line pushed so far.
DisplayAppendComma(lines) ==
  [lines EXCEPT ![Len(lines)].content = @ \o DisplayComma]

RECURSIVE BuildLines(_, _, _, _, _)
RECURSIVE BuildMembers(_, _, _, _, _)

\* keys.forEach / value.forEach of buildLines, from member i on: build the
\* member, then put a comma on the last line unless it was the last member.
BuildMembers(v, i, level, currentId, st) ==
  IF i > Len(v.kids) THEN st
  ELSE
    LET built == BuildLines(v.kids[i].v, MemberKey(v, i), ChildLevel(level), currentId, st)
        after == IF i < Len(v.kids)
                 THEN [built EXCEPT !.lines = DisplayAppendComma(built.lines)]
                 ELSE built
    IN BuildMembers(v, i + 1, level, currentId, after)

\* buildLines(value, key, level, parentId) on the accumulator st = [lines, n]
\* (this.allLines and idCounter).
BuildLines(value, key, level, parentId, st) ==
  LET currentId == DisplayId(st.n)
      prefix == IndentStr(level)
                \o (IF ~key.null THEN DisplayKeyPart(key.s) ELSE "")
  IN IF IsObject(value) \/ IsArray(value) THEN
       LET open == IF IsObject(value) THEN "{" ELSE "["
           close == IF IsObject(value) THEN "}" ELSE "]"
           opened ==
             [lines |-> Append(st.lines,
                 OpenLine(currentId,
                          prefix \o "<span class=\"bracket\">" \o open \o "</span>",
                          level, parentId, key, value)),
              n |-> st.n + 1]
           inner == BuildMembers(value, 1, level, currentId, opened)
       IN [lines |-> Append(inner.lines,
              CloseLine(DisplayId(inner.n),
                        IndentStr(level) \o "<span class=\"bracket\">" \o close \o "</span>",
                        level, currentId)),
           n |-> inner.n + 1]
     ELSE
       [lines |-> Append(st.lines,
           ScalarLine(currentId, prefix \o DisplayScalar(value), level, parentId, key)),
        n |-> st.n + 1]

\* The flat sequence parseAndDisplay builds for a value (before projection).
DisplayFlatten(data) == BuildLines(data, NullKey, 0, NoParent, [lines |-> <<>>, n |-> 0]).lines

(***************************************************************************)
(* parseEditLines: the edit flattener.                                     *)
(***************************************************************************)
\* generateId of parseEditLines.
EditId(n) == "edit-" \o ToString(n)

\* keyPart of parseEditLines: the key, raw, between quotes.
EditKeyPart(key) ==
  IF ~key.null THEN <<QUOTE>> \o key.s \o <<QUOTE, ":", SP>> ELSE <<>>

\* The separator after a line: nothing after a last item, else a comma.
EditSeparator(isLastItem) == IF isLastItem THEN <<>> ELSE <<",">>

RECURSIVE EditParse(_, _, _, _, _, _)
RECURSIVE EditParseMembers(_, _, _, _, _)

\* entries.forEach / value.forEach of parse, from member i on.
EditParseMembers(v, i, level, openId, st) ==
  IF i > Len(v.kids) THEN st
  ELSE EditParseMembers(v, i + 1, level, openId,
         EditParse(v.kids[i].v, MemberKey(v, i), ChildLevel(level), openId,
                   i = Len(v.kids), st))

\* parse(value, key, level, parentId, isLastItem) on the accumulator
\* st = [lines, n] (this.editAllLines and idCounter).
EditParse(value, key, level, parentId, isLastItem, st) ==
  LET currentId == EditId(st.n)
      indent == IndentChars(level)
  IN IF IsObject(value) \/ IsArray(value) THEN
       LET open == IF IsObject(value) THEN "{" ELSE "["
           close == IF IsObject(value) THEN "}" ELSE "]"
           opened ==
             [lines |-> Append(st.lines,
                 OpenLine(currentId, indent \o EditKeyPart(key) \o <<open>>,
                          level, parentId, key, value)),
              n |-> st.n + 1]
           inner == EditParseMembers(value, 1, level, currentId, opened)
       IN [lines |-> Append(inner.lines,
              CloseLine(EditId(inner.n),
                        indent \o <<close>> \o EditSeparator(isLastItem),
                        level, currentId)),
           n |-> inner.n + 1]
     ELSE
       [lines |-> Append(st.lines,
           ScalarLine(currentId,
                      indent \o EditKeyPart(key) \o StringifyScalar(value)
                        \o EditSeparator(isLastItem),
                      level, parentId, key)),
        n |-> st.n + 1]

\* An edit flattener that pushes no closing line for the root.
EditFlattenNoRootClose(data) ==
  LET lines == EditParse(data, NullKey, 0, NoParent, TRUE, [lines |-> <<>>, n |-> 0]).lines
  IN IF lines[Len(lines)].isClosing THEN SubSeq(lines, 1, Len(lines) - 1) ELSE lines

\* The flat sequence parseEditLines builds for a value (before projection).
EditFlatten(data) ==
  EditParse(data, NullKey, 0, NoParent, TRUE, [lines |-> <<>>, n |-> 0]).lines

(***************************************************************************)
(* The visibility projection (updateDisplayLines, updateEditDisplayLines). *)
(***************************************************************************)
RECURSIVE HasCollapsedAncestor(_, _, _)
\* The while loop of the projection: walk parentId from `parentId` up; true
\* when an id on the way is in collapsedParents.  A parent that is not found
\* ends the walk.
HasCollapsedAncestor(lines, collapsedParents, parentId) ==
  IF parentId = NoParent THEN FALSE
  ELSE IF parentId \in collapsedParents THEN TRUE
  ELSE LET p == FindLine(lines, parentId)
       IN IF p = 0 THEN FALSE
          ELSE HasCollapsedAncestor(lines, collapsedParents, lines[p].parentId)

\* The indices, in order, of the lines the projection keeps.
VisibleIndices(lines) ==
  LET collapsedParents == {lines[i].id : i \in {j \in 1..Len(lines) : lines[j].isCollapsed}}
      shown(i) == ~HasCollapsedAncestor(lines, collapsedParents, lines[i].parentId)
      RECURSIVE Keep(_)
      Keep(i) == IF i > Len(lines) THEN <<>>
                 ELSE IF shown(i) THEN <<i>> \o Keep(i + 1)
                 ELSE Keep(i + 1)
  IN Keep(1)

\* A numbering of the visible lines by their 0-based index.
VisibleNumberFromZero(index) == index

\* The number the projection gives the index-th visible line (0-based index).
VisibleNumber(index) == index + 1

\* The lines after visibleLines.forEach((line, index) => line.lineNumber = ...).
Renumber(lines, visible) ==
  [i \in 1..Len(lines) |->
     IF \E j \in 1..Len(visible) : visible[j] = i
     THEN [lines[i] EXCEPT !.lineNumber =
             VisibleNumber((CHOOSE j \in 1..Len(visible) : visible[j] = i) - 1)]
     ELSE lines[i]]

\* updateDisplayLines / updateEditDisplayLines on a flat sequence: the lines
\* renumbered, and the visible ones (as indices: the signal holds the same
\* line objects as the flat sequence).
Project(lines) ==
  LET visible == VisibleIndices(lines)
  IN [lines |-> Renumber(lines, visible), shown |-> visible]

(***************************************************************************)
(* Collapse / expand rewrites of a container-open line.                    *)
(***************************************************************************)
\* keyPart of toggleCollapse / expandAll / collapseAll, display model.
DisplayToggleKeyPart(line) ==
  IF KeyTruthy(line.originalKey) THEN DisplayKeyPart(line.originalKey.s) ELSE ""

\* content of a display line that has just been collapsed.
DisplayCollapsedContent(line) ==
  IF line.isObject
  THEN IndentStr(line.level) \o DisplayToggleKeyPart(line)
       \o "<span class=\"bracket\">{...}</span> <span class=\"comment\">// "
       \o ToString(line.childCount) \o " properties</span>"
  ELSE IF line.isArray
  THEN IndentStr(line.level) \o DisplayToggleKeyPart(line)
       \o "<span class=\"bracket\">[...]</span> <span class=\"comment\">// "
       \o ToString(line.childCount) \o " items</span>"
  ELSE line.content

\* content of a display line that has just been expanded.
DisplayExpandedContent(line) ==
  IF line.isObject
  THEN IndentStr(line.level) \o DisplayToggleKeyPart(line)
       \o "<span class=\"bracket\">{</span>"
  ELSE IF line.isArray
  THEN IndentStr(line.level) \o DisplayToggleKeyPart(line)
       \o "<span class=\"bracket\">[</span>"
  ELSE line.content

\* keyPart of expandAll / collapseAll, edit model.
EditToggleKeyPart(line) ==
  IF KeyTruthy(line.originalKey)
  THEN <<QUOTE>> \o line.originalKey.s \o <<QUOTE, ":", SP>>
  ELSE <<>>

RECURSIVE NatChars(_)
\* `${n}` of a non-negative integer, as a text.
NatChars(n) ==
  IF n < 10 THEN <<ToString(n)>> ELSE NatChars(n \div 10) \o <<ToString(n % 10)>>

\* content of an edit line collapsed by collapseAll.
EditCollapsedContent(line) ==
  IF line.isObject
  THEN IndentChars(line.level) \o EditToggleKeyPart(line)
       \o <<"{", ".", ".", ".", "}", SP, "/", "/", SP>> \o NatChars(line.childCount)
       \o <<SP, "p", "r", "o", "p", "e", "r", "t", "i", "e", "s">>
  ELSE IF line.isArray
  THEN IndentChars(line.level) \o EditToggleKeyPart(line)
       \o <<"[", ".", ".", ".", "]", SP, "/", "/", SP>> \o NatChars(line.childCount)
       \o <<SP, "i", "t", "e", "m", "s">>
  ELSE line.content

\* content of an edit line expanded by expandAll.
EditExpandedContent(line) ==
  IF line.isObject
  THEN IndentChars(line.level) \o EditToggleKeyPart(line) \o <<"{">>
  ELSE IF line.isArray
  THEN IndentChars(line.level) \o EditToggleKeyPart(line) \o <<"[">>
  ELSE line.content

(***************************************************************************)
(* Reconstruction of text from the edit model.                             *)
(***************************************************************************)
\* this.editAllLines.map(line => line.content), as a sequence of texts.
Contents(lines) == [i \in 1..Len(lines) |-> lines[i].content]

\* reconstructJsonFromEditLines(): every line of the flat sequence.
ReconstructJsonFromEditLines(lines) == JoinNl(Contents(lines))

RECURSIVE AncestorCollapsed(_, _)
\* The while loop of getEditableText and reconstructJsonFromLines: some line
\* on the parentId chain is collapsed.  A parent that is not found ends the
\* walk.
AncestorCollapsed(lines, parentId) ==
  IF parentId = NoParent THEN FALSE
  ELSE LET p == FindLine(lines, parentId)
       IN IF p = 0 THEN FALSE
          ELSE IF lines[p].isCollapsed THEN TRUE
          ELSE AncestorCollapsed(lines, lines[p].parentId)

\* this.editAllLines.filter(...) of both functions: the lines kept.
FilterVisible(lines) ==
  SelectSeq(lines, LAMBDA line : ~AncestorCollapsed(lines, line.parentId))

\* getEditableText().
GetEditableText(lines) == JoinNl(Contents(FilterVisible(lines)))

\* reconstructJsonFromLines().
ReconstructJsonFromLines(lines) == JoinNl(Contents(FilterVisible(lines)))

(***************************************************************************)
(* Inputs.                                                                 *)
(***************************************************************************)
\* {"a":1,"b":[2,3]}
DocScenario ==
  ObjV(<<[k |-> <<"a">>, v |-> NumV(<<"1">>)],
         [k |-> <<"b">>, v |-> ArrV(<<NumV(<<"2">>), NumV(<<"3">>)>>)]>>)

\* {"":[true]}: a container under the empty key.
DocEmptyKey == ObjV(<<[k |-> <<>>, v |-> ArrV(<<BoolV(TRUE)>>)]>>)

\* Text that is not JSON: an object that is never closed.
BrokenText == <<"{">>

\* Text that is blank.
BlankText == <<SP>>

FileA == [name |-> <<"a", ".", "j", "s", "o", "n">>, content |-> Stringify2(DocScenario)]
FileB == [name |-> <<"b", ".", "j", "s", "o", "n">>, content |-> Stringify2(DocEmptyKey)]
FileBad == [name |-> <<"c", ".", "j", "s", "o", "n">>, content |-> BrokenText]
FileTxt == [name |-> <<"d", ".", "t", "x", "t">>, content |-> Stringify2(DocScenario)]

\* The files the user can pick.
Files == {FileA, FileB, FileBad, FileTxt}

\* What the user can type into the raw textarea.
RawInputs == {BlankText, BrokenText, Stringify2(DocEmptyKey)}

\* What document.querySelector('.edit-textarea') can return: null, or an
\* element with a value.  The template that decides it is not part of the
\* sources, so every outcome is possible at every query.
NoElement == [present |-> FALSE, value |-> <<>>]
Element(text) == [present |-> TRUE, value |-> text]
EditTextareas ==
  {NoElement, Element(BlankText), Element(BrokenText), Element(Stringify2(DocEmptyKey))}

\* What the user can make of one line of the edit model.
EditTextMember == <<SP, SP, QUOTE, "a", QUOTE, ":", SP, "7", ",">>
EditTextClose == <<"}", ",">>
EditTexts == {EditTextMember, EditTextClose}

\* An id no line has.
UnknownId == "line-99"

(***************************************************************************)
(* Generated JSON values, for the checks of the flatteners: every value    *)
(* with at most MaxNodes nodes over these scalars and keys.                *)
(***************************************************************************)
GenScalars == {NumV(<<"1">>), StrV(<<QUOTE, BSLASH>>), NullV}
GenKeys == {<<"a">>, <<QUOTE>>}

RECURSIVE ValsExact(_)
RECURSIVE SeqsExact(_)

\* The sequences of values with n nodes in all.
SeqsExact(n) ==
  IF n = 0 THEN {<<>>}
  ELSE UNION {{<<v>> \o rest : v \in ValsExact(m), rest \in SeqsExact(n - m)} : m \in 1..n}

\* The ways to give len members distinct keys.
KeySeqs(len) ==
  {ks \in [1..len -> GenKeys] : \A i, j \in 1..len : i # j => ks[i] # ks[j]}

\* The values with exactly n nodes.
ValsExact(n) ==
  IF n = 0 THEN {}
  ELSE (IF n = 1 THEN GenScalars ELSE {})
       \cup {ArrV(items) : items \in SeqsExact(n - 1)}
       \cup UNION {{ObjV([i \in 1..Len(items) |-> [k |-> ks[i], v |-> items[i]]]) :
                      ks \in KeySeqs(Len(items))} :
                   items \in {x \in SeqsExact(n - 1) : Len(x) <= Cardinality(GenKeys)}}

GenValues == UNION {ValsExact(n) : n \in 1..MaxNodes}

(***************************************************************************)
(* The state of the component.  displayLines and editLines hold indices    *)
(* into allLines and editAllLines: the signals hold the very line objects  *)
(* of the flat sequences.  pending is the file reads in flight, in the     *)
(* order they were started; edits counts the direct line edits of the      *)
(* current edit session (it only bounds the model).  The signals no        *)
(* handler modelled here reads (activeLineIndex, viewMode, editedText,     *)
(* editableContent, showFormattedView, editTextareaValue) are left out.    *)
(***************************************************************************)
VARIABLES allLines, displayLines, fileName, rawJsonText, isEditMode,
          validationError, editLines, editAllLines, hasUnsavedChanges,
          isValidJson, successMessage, textareaContent, pending, edits

vars == <<allLines, displayLines, fileName, rawJsonText, isEditMode,
          validationError, editLines, editAllLines, hasUnsavedChanges,
          isValidJson, successMessage, textareaContent, pending, edits>>

\* The display model, the edit model, and the flags of the edit session.
displayVars == <<allLines, displayLines>>
editVars == <<editAllLines, editLines>>

\* The field initializers of the class.
Init ==
  /\ allLines = <<>>
  /\ displayLines = <<>>
  /\ fileName = <<>>
  /\ rawJsonText = <<>>
  /\ isEditMode = FALSE
  /\ validationError = ""
  /\ editLines = <<>>
  /\ editAllLines = <<>>
  /\ hasUnsavedChanges = FALSE
  /\ isValidJson = TRUE
  /\ successMessage = ""
  /\ textareaContent = <<>>
  /\ pending = <<>>
  /\ edits = 0

\* The sequence without its i-th element.
RemoveAt(seq, i) == SubSeq(seq, 1, i - 1) \o SubSeq(seq, i + 1, Len(seq))

\* The state parseAndDisplay(data) leaves in allLines and displayLines.
ParseAndDisplay(data) ==
  LET p == Project(DisplayFlatten(data))
  IN /\ allLines' = p.lines
     /\ displayLines' = p.shown

\* The state parseEditLines(data) leaves in editAllLines and editLines.
ParseEditLines(data) ==
  LET p == Project(EditFlatten(data))
  IN /\ editAllLines' = p.lines
     /\ editLines' = p.shown

\* onFileSelect(event) with a file chosen: a name that does not end in .json
\* is refused; otherwise fileName is set and the read is started.
OnFileSelect(file) ==
  IF ~EndsWithJson(file.name)
  THEN UNCHANGED vars
  ELSE /\ Len(pending) < MaxPending
       /\ fileName' = file.name
       /\ pending' = Append(pending, file)
       /\ UNCHANGED <<allLines, displayLines, rawJsonText, isEditMode,
                      validationError, editLines, editAllLines,
                      hasUnsavedChanges, isValidJson, successMessage,
                      textareaContent, edits>>

\* reader.onload of the i-th read in flight.
ReaderOnload(i) ==
  /\ i \in 1..Len(pending)
  /\ pending' = RemoveAt(pending, i)
  /\ LET r == JsonParse(pending[i].content)
     IN IF r.ok
        THEN /\ rawJsonText' = Stringify2(r.v)
             /\ textareaContent' = Stringify2(r.v)
             /\ ParseAndDisplay(r.v)
             /\ successMessage' = "JSON file loaded successfully!"
             /\ UNCHANGED fileName
        ELSE /\ displayLines' = <<>>
             /\ rawJsonText' = <<>>
             /\ textareaContent' = <<>>
             /\ fileName' = <<>>
             /\ UNCHANGED <<allLines, successMessage>>
  /\ UNCHANGED <<isEditMode, validationError, editLines, editAllLines,
                 hasUnsavedChanges, isValidJson, edits>>

\* The setTimeout callbacks that clear successMessage after 3 s: one is
\* outstanding whenever the message is set.
SuccessTimeout ==
  /\ successMessage # ""
  /\ successMessage' = ""
  /\ UNCHANGED <<allLines, displayLines, fileName, rawJsonText, isEditMode,
                 validationError, editLines, editAllLines, hasUnsavedChanges,
                 isValidJson, textareaContent, pending, edits>>

\* A toggle that also resets the line's childCount.
ToggledLineForgetsCount(line) ==
  LET flipped == [line EXCEPT !.isCollapsed = ~line.isCollapsed, !.childCount = 0]
  IN [flipped EXCEPT !.content =
        IF flipped.isCollapsed THEN DisplayCollapsedContent(flipped)
        ELSE DisplayExpandedContent(flipped)]

\* The line toggleCollapse leaves in place of a line with a toggle.
ToggledLine(line) ==
  LET flipped == [line EXCEPT !.isCollapsed = ~line.isCollapsed]
  IN [flipped EXCEPT !.content =
        IF flipped.isCollapsed THEN DisplayCollapsedContent(flipped)
        ELSE DisplayExpandedContent(flipped)]

\* What toggleCollapse(lineId) makes of a display model [lines, shown].
ToggleCollapseResult(model, lineId) ==
  LET i == FindLine(model.lines, lineId)
  IN IF i # 0 /\ model.lines[i].hasToggle
     THEN Project([model.lines EXCEPT ![i] = ToggledLine(model.lines[i])])
     ELSE model

\* toggleCollapse(lineId).
ToggleCollapse(lineId) ==
  LET after == ToggleCollapseResult([lines |-> allLines, shown |-> displayLines], lineId)
  IN /\ allLines' = after.lines
     /\ displayLines' = after.shown
     /\ UNCHANGED <<fileName, rawJsonText, isEditMode, validationError,
                    editLines, editAllLines, hasUnsavedChanges, isValidJson,
                    successMessage, textareaContent, pending, edits>>

\* onTextareaInput(event) with the textarea holding `content`.
OnTextareaInput(content) ==
  /\ textareaContent' = content
  /\ LET r == JsonParse(content)
     IN IF TrimNonEmpty(content) /\ r.ok
        THEN /\ rawJsonText' = Stringify2(r.v)
             /\ ParseAndDisplay(r.v)
             /\ validationError' = ""
        ELSE /\ displayLines' = <<>>
             /\ UNCHANGED <<rawJsonText, allLines, validationError>>
  /\ UNCHANGED <<fileName, isEditMode, editLines, editAllLines,
                 hasUnsavedChanges, isValidJson, successMessage, pending, edits>>

\* A toggleEditMode that leaves the edit model in place when it exits.
ToggleEditModeKeepsModel(confirmed) ==
  IF ~isEditMode
  THEN /\ validationError' = ""
       /\ hasUnsavedChanges' = FALSE
       /\ isValidJson' = TRUE
       /\ LET r == JsonParse(rawJsonText)
          IN IF r.ok THEN ParseEditLines(r.v)
             ELSE /\ editLines' = <<>>
                  /\ UNCHANGED editAllLines
       /\ isEditMode' = TRUE
       /\ edits' = 0
       /\ UNCHANGED <<allLines, displayLines, fileName, rawJsonText,
                      successMessage, textareaContent, pending>>
  ELSE IF hasUnsavedChanges /\ ~confirmed
  THEN UNCHANGED vars
  ELSE /\ isEditMode' = FALSE
       /\ validationError' = ""
       /\ hasUnsavedChanges' = FALSE
       /\ edits' = 0
       /\ UNCHANGED <<allLines, displayLines, fileName, rawJsonText,
                      isValidJson, successMessage, textareaContent, pending,
                      editLines, editAllLines>>

\* toggleEditMode(); confirmed is the answer to the confirm dialog, asked
\* only when leaving with unsaved changes.
ToggleEditMode(confirmed) ==
  IF ~isEditMode
  THEN /\ validationError' = ""
       /\ hasUnsavedChanges' = FALSE
       /\ isValidJson' = TRUE
       /\ LET r == JsonParse(rawJsonText)
          IN IF r.ok THEN ParseEditLines(r.v)
             ELSE /\ editLines' = <<>>
                  /\ UNCHANGED editAllLines
       /\ isEditMode' = TRUE
       /\ edits' = 0
       /\ UNCHANGED <<allLines, displayLines, fileName, rawJsonText,
                      successMessage, textareaContent, pending>>
  ELSE IF hasUnsavedChanges /\ ~confirmed
  THEN UNCHANGED vars
  ELSE /\ isEditMode' = FALSE
       /\ validationError' = ""
       /\ hasUnsavedChanges' = FALSE
       /\ editLines' = <<>>
       /\ editAllLines' = <<>>
       /\ edits' = 0
       /\ UNCHANGED <<allLines, displayLines, fileName, rawJsonText,
                      isValidJson, successMessage, textareaContent, pending>>

\* onEditTextareaChange(event).
OnEditTextareaChange ==
  /\ hasUnsavedChanges' = TRUE
  /\ UNCHANGED <<allLines, displayLines, fileName, rawJsonText, isEditMode,
                 validationError, editLines, editAllLines, isValidJson,
                 successMessage, textareaContent, pending, edits>>

\* A toggle of the edit model that flips whatever line it finds.
ToggleEditCollapseAnyLine(model, lineId) ==
  LET i == FindLine(model.lines, lineId)
  IN IF i = 0 THEN model
     ELSE Project([model.lines EXCEPT ![i].isCollapsed = ~model.lines[i].isCollapsed])

\* What toggleEditCollapse(lineId) makes of an edit model [lines, shown].
ToggleEditCollapseResult(model, lineId) ==
  LET i == FindLine(model.lines, lineId)
  IN IF i = 0 \/ ~model.lines[i].hasToggle THEN model
     ELSE Project([model.lines EXCEPT ![i].isCollapsed = ~model.lines[i].isCollapsed])

\* toggleEditCollapse(lineId).
ToggleEditCollapse(lineId) ==
  LET after == ToggleEditCollapseResult([lines |-> editAllLines, shown |-> editLines], lineId)
  IN /\ editAllLines' = after.lines
     /\ editLines' = after.shown
     /\ UNCHANGED <<allLines, displayLines, fileName, rawJsonText, isEditMode,
                    validationError, hasUnsavedChanges, isValidJson,
                    successMessage, textareaContent, pending, edits>>

\* A line edit that leaves the dirty flag alone.
OnLineContentChangeNotDirty(lineId, newContent) ==
  LET i == FindLine(editAllLines, lineId)
  IN IF i # 0
     THEN /\ edits < MaxEdits
          /\ edits' = edits + 1
          /\ editAllLines' = [editAllLines EXCEPT ![i].content = newContent]
          /\ UNCHANGED <<allLines, displayLines, fileName, rawJsonText,
                         isEditMode, validationError, editLines, isValidJson,
                         successMessage, textareaContent, pending,
                         hasUnsavedChanges>>
     ELSE UNCHANGED vars

\* onLineContentChange(lineId, event) with the element's text newContent.
OnLineContentChange(lineId, newContent) ==
  LET i == FindLine(editAllLines, lineId)
  IN IF i # 0
     THEN /\ edits < MaxEdits
          /\ edits' = edits + 1
          /\ editAllLines' = [editAllLines EXCEPT ![i].content = newContent]
          /\ hasUnsavedChanges' = TRUE
          /\ UNCHANGED <<allLines, displayLines, fileName, rawJsonText,
                         isEditMode, validationError, editLines, isValidJson,
                         successMessage, textareaContent, pending>>
     ELSE UNCHANGED vars

\* The text validateAndSave parses: the textarea's when there is one, else
\* the reconstruction from the edit model.
SaveText(textarea) ==
  IF textarea.present THEN textarea.value
  ELSE ReconstructJsonFromEditLines(editAllLines)

\* A save that keeps the display model it finds.
SaveKeepsDisplay(jsonData) ==
  /\ rawJsonText' = Stringify2(jsonData)
  /\ textareaContent' = Stringify2(jsonData)
  /\ isEditMode' = FALSE
  /\ validationError' = ""
  /\ hasUnsavedChanges' = FALSE
  /\ isValidJson' = TRUE
  /\ editLines' = <<>>
  /\ editAllLines' = <<>>
  /\ successMessage' = "JSON validated and saved successfully!"
  /\ edits' = 0
  /\ UNCHANGED <<allLines, displayLines, fileName, pending>>

\* The try block of validateAndSave once JSON.parse has returned jsonData.
SaveSucceeds(jsonData) ==
  /\ rawJsonText' = Stringify2(jsonData)
  /\ textareaContent' = Stringify2(jsonData)
  /\ ParseAndDisplay(jsonData)
  /\ isEditMode' = FALSE
  /\ validationError' = ""
  /\ hasUnsavedChanges' = FALSE
  /\ isValidJson' = TRUE
  /\ editLines' = <<>>
  /\ editAllLines' = <<>>
  /\ successMessage' = "JSON validated and saved successfully!"
  /\ edits' = 0
  /\ UNCHANGED <<fileName, pending>>

\* A failed save that also leaves edit mode.
SaveFailsLeavingEditMode(message) ==
  /\ validationError' = "Invalid JSON: " \o message
  /\ isValidJson' = FALSE
  /\ isEditMode' = FALSE
  /\ UNCHANGED <<allLines, displayLines, fileName, rawJsonText,
                 editLines, editAllLines, hasUnsavedChanges, successMessage,
                 textareaContent, pending, edits>>

\* The catch block of validateAndSave; message is the SyntaxError's.
SaveFails(message) ==
  /\ validationError' = "Invalid JSON: " \o message
  /\ isValidJson' = FALSE
  /\ UNCHANGED <<allLines, displayLines, fileName, rawJsonText, isEditMode,
                 editLines, editAllLines, hasUnsavedChanges, successMessage,
                 textareaContent, pending, edits>>

\* validateAndSave(), also reached from onKeyDown and onEditKeyDown (Ctrl+S).
ValidateAndSave(textarea) ==
  LET r == JsonParse(SaveText(textarea))
  IN IF r.ok THEN SaveSucceeds(r.v) ELSE SaveFails(r.err)

\* formatJson().
FormatJson(textarea) ==
  IF ~textarea.present THEN UNCHANGED vars
  ELSE LET r == JsonParse(textarea.value)
       IN IF r.ok
          THEN /\ ParseEditLines(r.v)
               /\ hasUnsavedChanges' = TRUE
               /\ validationError' = ""
               /\ isValidJson' = TRUE
               /\ edits' = 0
               /\ UNCHANGED <<allLines, displayLines, fileName, rawJsonText,
                              isEditMode, successMessage, textareaContent, pending>>
          ELSE /\ validationError' = "Cannot format: " \o r.err
               /\ UNCHANGED <<allLines, displayLines, fileName, rawJsonText,
                              isEditMode, editLines, editAllLines,
                              hasUnsavedChanges, isValidJson, successMessage,
                              textareaContent, pending, edits>>

\* The forEach of expandAll over a flat sequence, in the edit-mode branch
\* (editMode) or the other.
ExpandLines(lines, editMode) ==
  [i \in 1..Len(lines) |->
     IF lines[i].hasToggle /\ lines[i].isCollapsed
     THEN LET line == [lines[i] EXCEPT !.isCollapsed = FALSE]
          IN [line EXCEPT !.content = IF editMode THEN EditExpandedContent(line)
                                      ELSE DisplayExpandedContent(line)]
     ELSE lines[i]]

\* The forEach of collapseAll over a flat sequence, in the edit-mode branch
\* (editMode) or the other.
CollapseLines(lines, editMode) ==
  [i \in 1..Len(lines) |->
     IF lines[i].hasToggle /\ ~lines[i].isCollapsed
     THEN LET line == [lines[i] EXCEPT !.isCollapsed = TRUE]
          IN [line EXCEPT !.content = IF editMode THEN EditCollapsedContent(line)
                                      ELSE DisplayCollapsedContent(line)]
     ELSE lines[i]]

\* The edit-mode branch of expandAll and collapseAll returns at once when
\* there is no textarea or it is blank.
EditBulkRefused(textarea) == ~textarea.present \/ ~TrimNonEmpty(textarea.value)

\* expandAll().
ExpandAll(textarea) ==
  IF isEditMode
  THEN IF EditBulkRefused(textarea) THEN UNCHANGED vars
       ELSE LET p == Project(ExpandLines(editAllLines, TRUE))
            IN /\ editAllLines' = p.lines
               /\ editLines' = p.shown
               /\ UNCHANGED <<allLines, displayLines, fileName, rawJsonText,
                              isEditMode, validationError, hasUnsavedChanges,
                              isValidJson, successMessage, textareaContent,
                              pending, edits>>
  ELSE LET p == Project(ExpandLines(allLines, FALSE))
       IN /\ allLines' = p.lines
          /\ displayLines' = p.shown
          /\ UNCHANGED <<fileName, rawJsonText, isEditMode, validationError,
                         editLines, editAllLines, hasUnsavedChanges,
                         isValidJson, successMessage, textareaContent,
                         pending, edits>>

\* collapseAll().
CollapseAll(textarea) ==
  IF isEditMode
  THEN IF EditBulkRefused(textarea) THEN UNCHANGED vars
       ELSE LET p == Project(CollapseLines(editAllLines, TRUE))
            IN /\ editAllLines' = p.lines
               /\ editLines' = p.shown
               /\ UNCHANGED <<allLines, displayLines, fileName, rawJsonText,
                              isEditMode, validationError, hasUnsavedChanges,
                              isValidJson, successMessage, textareaContent,
                              pending, edits>>
  ELSE LET p == Project(CollapseLines(allLines, FALSE))
       IN /\ allLines' = p.lines
          /\ displayLines' = p.shown
          /\ UNCHANGED <<fileName, rawJsonText, isEditMode, validationError,
                         editLines, editAllLines, hasUnsavedChanges,
                         isValidJson, successMessage, textareaContent,
                         pending, edits>>

\* The ids a toggle or an edit can be asked about: those of the model, and
\* one that no line has.
LineIds(lines) == {lines[i].id : i \in 1..Len(lines)} \cup {UnknownId}

Next ==
  \/ \E file \in Files : OnFileSelect(file)
  \/ \E i \in 1..MaxPending : ReaderOnload(i)
  \/ SuccessTimeout
  \/ \E id \in LineIds(allLines) : ToggleCollapse(id)
  \/ \E content \in RawInputs : OnTextareaInput(content)
  \/ \E confirmed \in BOOLEAN : ToggleEditMode(confirmed)
  \/ OnEditTextareaChange
  \/ \E id \in LineIds(editAllLines) : ToggleEditCollapse(id)
  \/ \E id \in LineIds(editAllLines), text \in EditTexts : OnLineContentChange(id, text)
  \/ \E textarea \in EditTextareas : ValidateAndSave(textarea)
  \/ \E textarea \in EditTextareas : FormatJson(textarea)
  \/ \E textarea \in EditTextareas : ExpandAll(textarea)
  \/ \E textarea \in EditTextareas : CollapseAll(textarea)

Spec == Init /\ [][Next]_vars

(***************************************************************************)
(* The flatteners on every generated value: a file holding the value is    *)
(* being read; its read completes, and then edit mode is entered.          *)
(***************************************************************************)
FlatInputs == GenValues \cup {DocScenario, DocEmptyKey}

InitFlat ==
  /\ allLines = <<>>
  /\ displayLines = <<>>
  /\ fileName = FileA.name
  /\ rawJsonText = <<>>
  /\ isEditMode = FALSE
  /\ validationError = ""
  /\ editLines = <<>>
  /\ editAllLines = <<>>
  /\ hasUnsavedChanges = FALSE
  /\ isValidJson = TRUE
  /\ successMessage = ""
  /\ textareaContent = <<>>
  /\ \E v \in FlatInputs : pending = <<[name |-> FileA.name, content |-> Stringify2(v)]>>
  /\ edits = 0

NextFlat ==
  \/ ReaderOnload(1)
  \/ /\ pending = <<>>
     /\ ~isEditMode
     /\ ToggleEditMode(TRUE)

SpecFlat == InitFlat /\ [][NextFlat]_vars

(***************************************************************************)
(* The display model alone: file selections and reads, raw textarea input, *)
(* and collapse/expand outside edit mode.                                  *)
(***************************************************************************)
NextView ==
  \/ \E file \in Files : OnFileSelect(file)
  \/ \E i \in 1..MaxPending : ReaderOnload(i)
  \/ SuccessTimeout
  \/ \E id \in LineIds(allLines) : ToggleCollapse(id)
  \/ \E content \in RawInputs : OnTextareaInput(content)
  \/ ExpandAll(NoElement)
  \/ CollapseAll(NoElement)

SpecView == Init /\ [][NextView]_vars

\* File selections and the completions of their reads, in any interleaving.
NextFiles ==
  \/ \E file \in Files : OnFileSelect(file)
  \/ \E i \in 1..MaxPending : ReaderOnload(i)
  \/ SuccessTimeout

SpecFiles == Init /\ [][NextFiles]_vars

(***************************************************************************)
(* A document is on display: the state after the read of FileA or FileB    *)
(* has completed and the success message has timed out.                    *)
(***************************************************************************)
InitLoaded ==
  \E file \in {FileA, FileB} :
    LET p == Project(DisplayFlatten(JsonParse(file.content).v))
    IN /\ allLines = p.lines
       /\ displayLines = p.shown
       /\ fileName = file.name
       /\ rawJsonText = Stringify2(JsonParse(file.content).v)
       /\ isEditMode = FALSE
       /\ validationError = ""
       /\ editLines = <<>>
       /\ editAllLines = <<>>
       /\ hasUnsavedChanges = FALSE
       /\ isValidJson = TRUE
       /\ successMessage = ""
       /\ textareaContent = Stringify2(JsonParse(file.content).v)
       /\ pending = <<>>
       /\ edits = 0

\* The two line models under collapse, expand and direct line edits.
NextLines ==
  \/ \E id \in LineIds(allLines) : ToggleCollapse(id)
  \/ \E confirmed \in BOOLEAN : ToggleEditMode(confirmed)
  \/ \E id \in LineIds(editAllLines) : ToggleEditCollapse(id)
  \/ \E id \in LineIds(editAllLines), text \in EditTexts : OnLineContentChange(id, text)
  \/ \E textarea \in EditTextareas : ExpandAll(textarea)
  \/ \E textarea \in EditTextareas : CollapseAll(textarea)

SpecLines == InitLoaded /\ [][NextLines]_vars

\* The edit session: edits, bulk collapse/expand, format, save.  Single
\* toggles of the edit model, which change no content, are left to SpecLines.
NextSave ==
  \/ \E confirmed \in BOOLEAN : ToggleEditMode(confirmed)
  \/ OnEditTextareaChange
  \/ \E id \in LineIds(editAllLines) : OnLineContentChange(id, EditTextMember)
  \/ \E textarea \in EditTextareas : ValidateAndSave(textarea)
  \/ \E textarea \in EditTextareas : FormatJson(textarea)
  \/ \E textarea \in EditTextareas : ExpandAll(textarea)
  \/ \E textarea \in EditTextareas : CollapseAll(textarea)
  \/ SuccessTimeout

SpecSave == InitLoaded /\ [][NextSave]_vars

\* File reads that complete while an edit session is open.
NextReads ==
  \/ \E file \in Files : OnFileSelect(file)
  \/ \E i \in 1..MaxPending : ReaderOnload(i)
  \/ SuccessTimeout
  \/ \E confirmed \in BOOLEAN : ToggleEditMode(confirmed)
  \/ \E id \in LineIds(editAllLines) : OnLineContentChange(id, EditTextMember)
  \/ \E textarea \in EditTextareas : ValidateAndSave(textarea)

SpecReads == InitLoaded /\ [][NextReads]_vars

(***************************************************************************)
(* Helpers of the properties.                                              *)
(***************************************************************************)
\* The value rawJsonText holds.
Authoritative == JsonParse(rawJsonText).v

\* A document is loaded: rawJsonText is JSON.
Loaded == rawJsonText # <<>> /\ JsonParse(rawJsonText).ok

\* The edit model was built from rawJsonText and nothing was done to it since.
FreshEditModel ==
  /\ isEditMode
  /\ Loaded
  /\ editAllLines = Project(EditFlatten(Authoritative)).lines

RECURSIVE ChainFrom(_, _, _)
\* The indices of the lines on the parentId chain that starts at parentId, as
\* a sequence, nearest first; `fuel` bounds the walk.  A parent that is not
\* in the sequence, or a walk that does not end, gives <<0>> at the end.
ChainFrom(lines, parentId, fuel) ==
  IF parentId = NoParent THEN <<>>
  ELSE IF fuel = 0 \/ FindLine(lines, parentId) = 0 THEN <<0>>
  ELSE LET p == FindLine(lines, parentId)
       IN <<p>> \o ChainFrom(lines, lines[p].parentId, fuel - 1)

\* The parentId chain of the i-th line.
Chain(lines, i) == ChainFrom(lines, lines[i].parentId, Len(lines))

\* The chain ends at the root: every parent exists and none repeats.
ChainWellFormed(lines, i) ==
  LET c == Chain(lines, i)
  IN /\ \A h \in 1..Len(c) : c[h] # 0
     /\ \A h, g \in 1..Len(c) : h # g => c[h] # c[g]

\* The lines whose parentId chain contains the i-th line's id.
ChainContains(lines, i) ==
  {k \in 1..Len(lines) : \E h \in 1..Len(Chain(lines, k)) : Chain(lines, k)[h] = i}

\* The container-open lines.
OpenIndices(lines) == {i \in 1..Len(lines) : lines[i].hasToggle}

\* The closing lines of the i-th line.
Closers(lines, i) ==
  {j \in 1..Len(lines) : lines[j].isClosing /\ lines[j].parentId = lines[i].id}

RECURSIVE CountScalars(_)
CountScalars(v) ==
  IF ~(IsObject(v) \/ IsArray(v)) THEN 1
  ELSE LET RECURSIVE Sum(_)
           Sum(i) == IF i > Len(v.kids) THEN 0
                     ELSE CountScalars(v.kids[i].v) + Sum(i + 1)
       IN Sum(1)

RECURSIVE CountContainers(_)
CountContainers(v) ==
  IF ~(IsObject(v) \/ IsArray(v)) THEN 0
  ELSE LET RECURSIVE Sum(_)
           Sum(i) == IF i > Len(v.kids) THEN 0
                     ELSE CountContainers(v.kids[i].v) + Sum(i + 1)
       IN 1 + Sum(1)

RECURSIVE PreOrder(_, _)
\* The nodes of a value in pre-order, each with its key, with a "close" entry
\* after the last descendant of each container.
PreOrder(v, key) ==
  IF ~(IsObject(v) \/ IsArray(v))
  THEN <<[kind |-> "scalar", key |-> key, n |-> 0]>>
  ELSE <<[kind |-> v.t, key |-> key, n |-> Len(v.kids)]>>
       \o Concat([i \in 1..Len(v.kids) |-> PreOrder(v.kids[i].v, MemberKey(v, i))])
       \o <<[kind |-> "close", key |-> NullKey, n |-> 0]>>

\* What a line says it is.
LineKind(line) ==
  [kind |-> IF line.isClosing THEN "close"
            ELSE IF line.isObject THEN "object"
            ELSE IF line.isArray THEN "array"
            ELSE "scalar",
   key |-> line.originalKey,
   n |-> line.childCount]

LineKinds(lines) == [i \in 1..Len(lines) |-> LineKind(lines[i])]

(***************************************************************************)
(* Properties of the flatteners (checked under SpecFlat).                  *)
(***************************************************************************)
AllExpanded(lines) == \A i \in 1..Len(lines) : ~lines[i].isCollapsed

\* C1: with every container expanded and no line edited, the newline-joined
\* contents of the edit model parse, and parse to a value deep-equal to the
\* value the model was built from -- for every value, whatever its keys.
C1_RoundTrip ==
  (FreshEditModel /\ AllExpanded(editAllLines)) =>
    LET r == JsonParse(ReconstructJsonFromEditLines(editAllLines))
    IN r.ok /\ DeepEqual(r.v, Authoritative)

\* The i-th line, a container-open line, has exactly one closing line, at
\* the same level and later, and the lines strictly between the two are
\* exactly the lines whose parentId chain contains the open line's id, the
\* closing line counted among them or not (closerCounts).
BracketsMatch(lines, i, closerCounts) ==
  /\ Cardinality(Closers(lines, i)) = 1
  /\ \A j \in Closers(lines, i) :
       /\ lines[j].level = lines[i].level
       /\ j > i
       /\ {k \in 1..Len(lines) : i < k /\ k < j} =
            ChainContains(lines, i) \ (IF closerCounts THEN {} ELSE {j})

\* C4 in the specification's words: in both flat sequences every
\* container-open line has one closing line (parentId the open line's id,
\* same level, later), and the lines strictly between the two are exactly
\* the lines whose parentId chain contains the open line's id.
C4_MatchingBracketsAsStated ==
  \A lines \in {allLines, editAllLines} :
    \A i \in OpenIndices(lines) :
      BracketsMatch(lines, i, TRUE)

\* C4: in both flat sequences every container-open line has one closing
\* line (parentId the open line's id, same level, later), and the lines
\* strictly between the two are exactly the lines, other than that closing
\* line, whose parentId chain contains the open line's id (the closing
\* line's own parentId is the open line's id).
C4_MatchingBrackets ==
  \A lines \in {allLines, editAllLines} :
    \A i \in OpenIndices(lines) :
      BracketsMatch(lines, i, FALSE)

\* A container inside a container, flattened by both flatteners.
C4_Witness ==
  /\ isEditMode
  /\ \E i \in OpenIndices(allLines) : allLines[i].level = 1
  /\ \E i \in OpenIndices(editAllLines) :
       editAllLines[i].level = 1 /\ editAllLines[i].childCount = 2

\* C8 in the specification's words: flattening {"a":1,"b":[2,3]} yields exactly 6 lines.
C8_ScenarioSixLines ==
  (Loaded /\ Authoritative = DocScenario) =>
    /\ Len(allLines) = 6
    /\ isEditMode => Len(editAllLines) = 6

\* C8: flattening {"a":1,"b":[2,3]} yields exactly 7 lines, with
\* either flattener: two opens, three scalars, two closes.
C8_ScenarioSevenLines ==
  (Loaded /\ Authoritative = DocScenario) =>
    /\ Len(allLines) = 7
    /\ isEditMode => Len(editAllLines) = 7

\* The scenario value, flattened by both flatteners.
C8_Witness ==
  /\ Loaded
  /\ Authoritative = DocScenario
  /\ isEditMode
  /\ allLines # <<>>
  /\ editAllLines # <<>>

\* The flat sequence is the flattening of value v: one line per scalar, an
\* open and a close line per container, in pre-order, the close after the
\* container's last descendant, childCount the number of members.
FlatteningOf(lines, v) ==
  /\ Len(lines) = CountScalars(v) + 2 * CountContainers(v)
  /\ LineKinds(lines) = PreOrder(v, NullKey)
  /\ (v \in {ObjV(<<>>), ArrV(<<>>)}) =>
       /\ Len(lines) = 2
       /\ lines[1].hasToggle /\ lines[1].childCount = 0
       /\ lines[2].isClosing

\* C9: each flattener emits one line per scalar and two per container, in
\* pre-order with the close after the last descendant; {} and [] give two
\* lines, open then close, childCount 0 on the open line.
C9_LineCount ==
  Loaded =>
    /\ FlatteningOf(allLines, Authoritative)
    /\ isEditMode => FlatteningOf(editAllLines, Authoritative)

\* The empty object and a value of four nodes, flattened by both flatteners.
C9_Witness ==
  /\ Loaded
  /\ isEditMode
  /\ \/ Authoritative = ObjV(<<>>) /\ Len(editAllLines) = 2 /\ Len(allLines) = 2
     \/ CountScalars(Authoritative) = 2 /\ CountContainers(Authoritative) = 2
        /\ Len(editAllLines) = 6


(***************************************************************************)
(* Claims about the display model under file loads and toggles (SpecView). *)
(***************************************************************************)
\* The visible lines of a model [lines, shown], as the records shown.
ShownLines(model) == [j \in 1..Len(model.shown) |-> model.lines[model.shown[j]]]

\* C2: toggleCollapse on an expanded container-open line c removes from
\* displayLines exactly the visible lines whose parentId chain contains c's
\* id, and a second toggleCollapse(c) makes displayLines what it was before
\* the first, line for line and in the same order.
C2_CollapseHidesSubtree ==
  LET now == [lines |-> allLines, shown |-> displayLines]
  IN \A c \in OpenIndices(allLines) :
       ~allLines[c].isCollapsed =>
         LET once == ToggleCollapseResult(now, allLines[c].id)
             twice == ToggleCollapseResult(once, allLines[c].id)
         IN /\ once.shown =
                 SelectSeq(displayLines, LAMBDA k : k \notin ChainContains(allLines, c))
            /\ ShownLines(twice) = ShownLines(now)

\* All of the previous document is gone.
PriorStateCleared ==
  /\ rawJsonText = <<>>
  /\ textareaContent = <<>>
  /\ fileName = <<>>
  /\ displayLines = <<>>
  /\ allLines = <<>>

\* C10: with a document loaded, a file whose name does not end in .json, or
\* a .json file whose content fails to parse when its read completes, leaves
\* rawJsonText, textareaContent, fileName, displayLines and allLines empty.
C10_InputErrorClearsPriorState ==
  [][ (/\ Loaded
       /\ \/ \E file \in Files : ~EndsWithJson(file.name) /\ OnFileSelect(file)
          \/ \E i \in 1..Len(pending) :
               ~JsonParse(pending[i].content).ok /\ ReaderOnload(i))
      => PriorStateCleared' ]_vars

(***************************************************************************)
(* Claims about the two line models under collapse and edits (SpecLines).  *)
(***************************************************************************)
\* The visible lines carry 1, 2, ..., k, in the order of the flat sequence.
NumberedDensely(lines, shown) ==
  /\ \A j \in 1..Len(shown) : lines[shown[j]].lineNumber = j
  /\ \A j \in 1..(Len(shown) - 1) : shown[j] < shown[j + 1]

\* C3: in both models the k visible lines carry lineNumber 1, 2, ..., k, no
\* gap and no duplicate, increasing along the flat sequence.
C3_DenseLineNumbers ==
  /\ NumberedDensely(allLines, displayLines)
  /\ NumberedDensely(editAllLines, editLines)

\* Both models hold a collapsed container that hides lines, and the edit
\* model has had a line edited.
C3_Witness ==
  /\ isEditMode
  /\ edits > 0
  /\ Len(displayLines) > 1 /\ Len(displayLines) < Len(allLines)
  /\ Len(editLines) > 1 /\ Len(editLines) < Len(editAllLines)
  /\ \E j \in 1..Len(editLines) : editLines[j] # j

\* level is the length of the parentId chain, for every line.
LevelIsChainLength(lines) ==
  \A i \in 1..Len(lines) :
    /\ ChainWellFormed(lines, i)
    /\ lines[i].level = Len(Chain(lines, i))

\* level is the length of the parentId chain, less one on a closing line.
LevelIsDepth(lines) ==
  \A i \in 1..Len(lines) :
    /\ ChainWellFormed(lines, i)
    /\ lines[i].level + (IF lines[i].isClosing THEN 1 ELSE 0) = Len(Chain(lines, i))

\* C5 in the specification's words: level equals the number of lines on the parentId chain for
\* every line of either flat sequence, the chain finite and acyclic.
C5_LevelIsChainLengthAsStated ==
  /\ LevelIsChainLength(allLines)
  /\ LevelIsChainLength(editAllLines)

\* C5: in either flat sequence the parentId chain of every line is finite
\* and acyclic; level equals its length on every line that is not a closing
\* line, and is one less on a closing line, whose parent is the open line it
\* closes; toggles, expandAll, collapseAll and line edits keep it so.
C5_LevelIsDepth ==
  /\ LevelIsDepth(allLines)
  /\ LevelIsDepth(editAllLines)

\* Nested containers in both models, after collapse operations and an edit.
C5_Witness ==
  /\ isEditMode
  /\ edits > 0
  /\ \E i \in 1..Len(allLines) : allLines[i].level = 2
  /\ \E i \in 1..Len(editAllLines) :
       editAllLines[i].isClosing /\ editAllLines[i].parentId # NoParent
         /\ editAllLines[i].level = 1
  /\ \E i \in 1..Len(allLines) : allLines[i].isCollapsed
  /\ \E i \in 1..Len(editAllLines) : editAllLines[i].isCollapsed

(***************************************************************************)
(* Claims about validateAndSave (SpecSave).                                *)
(***************************************************************************)
\* C6: validateAndSave on text that does not parse leaves rawJsonText, the
\* display model, the edit model, edit mode and the dirty flag as they were;
\* only validationError, which becomes a non-empty message carrying the
\* parser's error, and isValidJson, which becomes false, change.
C6_FailedSaveChangesNothing ==
  [][ \A textarea \in EditTextareas :
        (~JsonParse(SaveText(textarea)).ok /\ ValidateAndSave(textarea)) =>
          /\ UNCHANGED <<rawJsonText, allLines, displayLines, editAllLines,
                         editLines, isEditMode, hasUnsavedChanges>>
          /\ UNCHANGED <<fileName, successMessage, textareaContent, pending>>
          /\ validationError' # ""
          /\ validationError' = "Invalid JSON: " \o JsonParse(SaveText(textarea)).err
          /\ isValidJson' = FALSE ]_vars

\* A save has failed in edit mode, on the reconstruction of an edited model.
C6_Witness ==
  /\ isEditMode
  /\ edits > 0
  /\ hasUnsavedChanges
  /\ ~isValidJson
  /\ ~JsonParse(ReconstructJsonFromEditLines(editAllLines)).ok
  /\ validationError =
       "Invalid JSON: " \o JsonParse(ReconstructJsonFromEditLines(editAllLines)).err

\* C7: validateAndSave on text that parses to w leaves rawJsonText the
\* 2-space serialization of w, allLines the flattening of w with every
\* container expanded, displayLines all of allLines, edit mode off, the
\* dirty flag false, validationError empty, isValidJson true and the edit
\* model empty.
C7_ValidSaveBuildsFreshModel ==
  [][ \A textarea \in EditTextareas :
        (JsonParse(SaveText(textarea)).ok /\ ValidateAndSave(textarea)) =>
          LET w == JsonParse(SaveText(textarea)).v
          IN /\ rawJsonText' = Stringify2(w)
             /\ FlatteningOf(allLines', w)
             /\ allLines' = Project(DisplayFlatten(w)).lines
             /\ AllExpanded(allLines')
             /\ displayLines' = [j \in 1..Len(allLines') |-> j]
             /\ ~isEditMode'
             /\ ~hasUnsavedChanges'
             /\ validationError' = ""
             /\ isValidJson'
             /\ editAllLines' = <<>>
             /\ editLines' = <<>> ]_vars

\* A save has replaced the document loaded from FileA by another one.
C7_Witness ==
  /\ successMessage = "JSON validated and saved successfully!"
  /\ ~isEditMode
  /\ fileName = FileA.name
  /\ Authoritative = DocEmptyKey
  /\ FlatteningOf(allLines, DocEmptyKey)
  /\ editAllLines = <<>>

(***************************************************************************)
(* Claims about what collapse and line edits leave alone (SpecLines).      *)
(***************************************************************************)
\* The display model and the edit model as [lines, shown].
DisplayModel == [lines |-> allLines, shown |-> displayLines]
EditModel == [lines |-> editAllLines, shown |-> editLines]

\* id names no line of the sequence, or a scalar line, or a closing line.
InvalidTarget(lines, id) ==
  \/ \A i \in 1..Len(lines) : lines[i].id # id
  \/ \E i \in 1..Len(lines) :
       /\ lines[i].id = id
       /\ lines[i].isClosing \/ (~lines[i].isObject /\ ~lines[i].isArray)

\* C11: toggleCollapse(id) and toggleEditCollapse(id) with the id of a
\* scalar line, of a closing line, or with an id no line has, change nothing:
\* no line's isCollapsed, content or lineNumber, and not the projection.
C11_InvalidToggleIsNoOp ==
  /\ \A id \in LineIds(allLines) :
       InvalidTarget(allLines, id) => ToggleCollapseResult(DisplayModel, id) = DisplayModel
  /\ \A id \in LineIds(editAllLines) :
       InvalidTarget(editAllLines, id) =>
         ToggleEditCollapseResult(EditModel, id) = EditModel

\* Both models hold scalar and closing lines, some of them hidden under a
\* collapsed container.
C11_Witness ==
  /\ isEditMode
  /\ \E i \in 1..Len(allLines) :
       allLines[i].isClosing /\ i \notin {displayLines[j] : j \in 1..Len(displayLines)}
  /\ \E i \in 1..Len(editAllLines) :
       /\ ~editAllLines[i].hasToggle /\ ~editAllLines[i].isClosing
       /\ i \notin {editLines[j] : j \in 1..Len(editLines)}
  /\ InvalidTarget(editAllLines, UnknownId)

\* What the collapse operations leave alone in a line.
Structure(line) ==
  [id |-> line.id, parentId |-> line.parentId, level |-> line.level,
   originalKey |-> line.originalKey, hasToggle |-> line.hasToggle,
   isObject |-> line.isObject, isArray |-> line.isArray,
   isClosing |-> line.isClosing, childCount |-> line.childCount]

Structures(lines) == [i \in 1..Len(lines) |-> Structure(lines[i])]

\* A step of toggleCollapse, toggleEditCollapse, expandAll or collapseAll.
CollapseStep ==
  \/ \E id \in LineIds(allLines) : ToggleCollapse(id)
  \/ \E id \in LineIds(editAllLines) : ToggleEditCollapse(id)
  \/ \E textarea \in EditTextareas : ExpandAll(textarea)
  \/ \E textarea \in EditTextareas : CollapseAll(textarea)

\* Between two flat sequences only isCollapsed and content of container-open
\* lines, and lineNumber, differ.
OnlyCollapseChanged(before, after) ==
  /\ Structures(after) = Structures(before)
  /\ \A i \in 1..Len(before) :
       ~before[i].hasToggle =>
         /\ after[i].content = before[i].content
         /\ after[i].isCollapsed = before[i].isCollapsed

\* C12: under toggleCollapse, toggleEditCollapse, expandAll and collapseAll
\* each flat sequence keeps the lines of the flatten pass, in order, with
\* their id, parentId, level, originalKey, kind flags and childCount; a step
\* of these operations changes only isCollapsed and content of container-open
\* lines, and lineNumber.
C12_CollapseIsViewOnly ==
  /\ [](/\ Structures(allLines) = Structures(DisplayFlatten(Authoritative))
        /\ isEditMode =>
             Structures(editAllLines) = Structures(EditFlatten(Authoritative)))
  /\ [][CollapseStep =>
          /\ OnlyCollapseChanged(allLines, allLines')
          /\ OnlyCollapseChanged(editAllLines, editAllLines')]_vars

\* Every container of the edit model collapsed by collapseAll, one of the
\* two containers of the display model collapsed by a toggle.
C12_Witness ==
  /\ isEditMode
  /\ OpenIndices(editAllLines) # {}
  /\ \A i \in OpenIndices(editAllLines) :
       editAllLines[i].isCollapsed
         /\ editAllLines[i].content = EditCollapsedContent(editAllLines[i])
  /\ \E i, j \in OpenIndices(allLines) :
       allLines[i].isCollapsed /\ ~allLines[j].isCollapsed

\* The container-open lines of the edit model whose content is the
\* collapsed summary ('{...} // n properties' or '[...] // n items').
SummaryLines(lines) ==
  {i \in OpenIndices(lines) :
     lines[i].content = EditCollapsedContent([lines[i] EXCEPT !.isCollapsed = TRUE])}

\* C13: in edit mode, with no line edited directly, whatever toggleEditCollapse,
\* collapseAll and expandAll have done, the text of
\* reconstructJsonFromEditLines holds no collapsed-summary line and parses
\* to the authoritative value.
C13_ReconstructionAvoidsSummaries ==
  (isEditMode /\ edits = 0) =>
    /\ SummaryLines(editAllLines) = {}
    /\ LET r == JsonParse(SaveText(NoElement))
       IN r.ok /\ DeepEqual(r.v, Authoritative)

\* C14: onLineContentChange(id, text) for an id of the edit model sets that
\* line's content to text and hasUnsavedChanges to true and changes nothing
\* else: not another line, not another field of the line, not the number or
\* order of lines, not rawJsonText, not the display model; for an id the edit
\* model does not have, nothing changes, the dirty flag included.
C14_LineEditTouchesOneLine ==
  /\ [](\A text \in EditTexts :
          ~ENABLED (OnLineContentChange(UnknownId, text) /\ vars' # vars))
  /\ [][\A id \in LineIds(editAllLines), text \in EditTexts :
          (FindLine(editAllLines, id) # 0 /\ OnLineContentChange(id, text)) =>
            LET i == FindLine(editAllLines, id)
            IN /\ Len(editAllLines') = Len(editAllLines)
               /\ \A k \in 1..Len(editAllLines) :
                    k # i => editAllLines'[k] = editAllLines[k]
               /\ editAllLines'[i].content = text
               /\ [editAllLines'[i] EXCEPT !.content = editAllLines[i].content]
                    = editAllLines[i]
               /\ hasUnsavedChanges' = TRUE
               /\ UNCHANGED <<allLines, displayLines, rawJsonText, editLines,
                              isEditMode, validationError, isValidJson,
                              fileName, successMessage, textareaContent,
                              pending>>]_vars

\* One line of the edit model holds an edited text, under a collapsed
\* container, and the scalar lines around it hold what the flattener wrote.
C14_Witness ==
  /\ isEditMode
  /\ hasUnsavedChanges
  /\ \E i \in 1..Len(editAllLines) :
       /\ editAllLines[i].content \in EditTexts
       /\ editAllLines[i].parentId # NoParent
       /\ editAllLines[FindLine(editAllLines, editAllLines[i].parentId)].isCollapsed
       /\ \A k \in 1..Len(editAllLines) :
            (k # i /\ ~editAllLines[k].hasToggle) =>
              editAllLines[k].content = EditFlatten(Authoritative)[k].content

\* The summary form of a container-open display line: indentation, the key
\* prefix when the line has a key, the collapsed marker, and a comment with
\* childCount and the noun.
DisplaySummaryForm(line) ==
  IndentStr(line.level)
  \o (IF line.originalKey.null THEN "" ELSE DisplayKeyPart(line.originalKey.s))
  \o "<span class=\"bracket\">" \o (IF line.isObject THEN "{...}" ELSE "[...]")
  \o "</span> <span class=\"comment\">// " \o ToString(line.childCount)
  \o (IF line.isObject THEN " properties" ELSE " items") \o "</span>"

\* C15: whatever toggleCollapse, expandAll and collapseAll have done, the
\* content of every container-open line of the display model is the summary
\* form when isCollapsed is true, and the content the flattener produced for
\* that line when isCollapsed is false, whatever the line's key.
C15_DisplayContentFollowsFlag ==
  \A i \in OpenIndices(allLines) :
    allLines[i].content =
      IF allLines[i].isCollapsed THEN DisplaySummaryForm(allLines[i])
      ELSE DisplayFlatten(Authoritative)[i].content

\* The model the collapse operations work on: the edit model in edit mode,
\* the display model otherwise.
CurrentModel == IF isEditMode THEN EditModel ELSE DisplayModel

RECURSIVE ToggleEach(_, _, _)
\* The model after one toggle (toggleEditCollapse in edit mode, toggleCollapse
\* otherwise) of each line from the i-th on that is a container-open line
\* with isCollapsed = collapsed in `start`.
ToggleEach(model, start, i) ==
  IF i > Len(start.lines) THEN model
  ELSE IF start.lines[i].hasToggle /\ start.lines[i].isCollapsed = start.collapsed
  THEN ToggleEach(IF isEditMode
                  THEN ToggleEditCollapseResult(model, start.lines[i].id)
                  ELSE ToggleCollapseResult(model, start.lines[i].id),
                  start, i + 1)
  ELSE ToggleEach(model, start, i + 1)

\* isCollapsed and content of every line, and the visible projection.
CollapseState(model) ==
  [flags |-> [i \in 1..Len(model.lines) |-> model.lines[i].isCollapsed],
   contents |-> [i \in 1..Len(model.lines) |-> model.lines[i].content],
   shown |-> model.shown,
   numbers |-> [j \in 1..Len(model.shown) |-> model.lines[model.shown[j]].lineNumber]]

\* C16: in the display model and in the edit model, collapseAll leaves
\* isCollapsed and content of every line, and the visible projection, as
\* one toggle of each expanded container does, and expandAll as one toggle
\* of each collapsed container does.
C16_BulkIsRepeatedToggle ==
  [][\A textarea \in EditTextareas :
       /\ CollapseAll(textarea) =>
            CollapseState(CurrentModel') =
              CollapseState(ToggleEach(CurrentModel,
                 [lines |-> CurrentModel.lines, collapsed |-> FALSE], 1))
       /\ ExpandAll(textarea) =>
            CollapseState(CurrentModel') =
              CollapseState(ToggleEach(CurrentModel,
                 [lines |-> CurrentModel.lines, collapsed |-> TRUE], 1))]_vars

(***************************************************************************)
(* Claims about the projection and the file reads (SpecView).              *)
(***************************************************************************)
\* The lines of a flat sequence with no collapsed line on their parentId
\* chain, in the order of the sequence.
UncollapsedLines(lines) ==
  SelectSeq([i \in 1..Len(lines) |-> i],
            LAMBDA i : \A h \in 1..Len(Chain(lines, i)) :
                         Chain(lines, i)[h] # 0 => ~lines[Chain(lines, i)[h]].isCollapsed)

\* C17: after any sequence of operations displayLines is the ordered
\* subsequence of allLines with no collapsed ancestor, and editLines that of
\* editAllLines.
C17_ProjectionInSync ==
  /\ displayLines = UncollapsedLines(allLines)
  /\ editLines = UncollapsedLines(editAllLines)

(***************************************************************************)
(* Claims about the texts made of the edit model (SpecLines).              *)
(***************************************************************************)
\* C18: in every edit-mode state reconstructJsonFromEditLines,
\* reconstructJsonFromLines and getEditableText return the same string.
C18_OneReconstructionPolicy ==
  isEditMode =>
    /\ ReconstructJsonFromEditLines(editAllLines) = ReconstructJsonFromLines(editAllLines)
    /\ ReconstructJsonFromLines(editAllLines) = GetEditableText(editAllLines)

\* childCount of every container-open line is the number of non-closing lines
\* whose parentId is its id; the other lines have childCount 0, no toggle,
\* and are not collapsed.
ChildCountsMatch(lines) ==
  \A i \in 1..Len(lines) :
    IF lines[i].isObject \/ lines[i].isArray
    THEN lines[i].childCount =
           Cardinality({k \in 1..Len(lines) :
                          ~lines[k].isClosing /\ lines[k].parentId = lines[i].id})
    ELSE lines[i].childCount = 0 /\ ~lines[i].hasToggle /\ ~lines[i].isCollapsed

\* C19: in every state of the display model and of the edit model childCount
\* of each container-open line equals the number of non-closing lines whose
\* parentId is that line's id, and every scalar line and closing line has
\* childCount 0 and hasToggle false and is not collapsed.
C19_ChildCountMatchesStructure ==
  /\ ChildCountsMatch(allLines)
  /\ ChildCountsMatch(editAllLines)

\* Both models hold a container of two members inside a container of two,
\* after collapse operations and a line edit.
C19_Witness ==
  /\ isEditMode
  /\ edits > 0
  /\ \E i \in OpenIndices(allLines) :
       allLines[i].childCount = 2 /\ allLines[i].level = 1 /\ allLines[i].isCollapsed
  /\ \E i \in OpenIndices(editAllLines) :
       /\ editAllLines[i].childCount = 2 /\ editAllLines[i].level = 1
       /\ editAllLines[i].isCollapsed

(***************************************************************************)
(* Claims about file reads in flight (SpecFiles).                          *)
(***************************************************************************)
\* C20: under every interleaving of file selections and read completions,
\* whenever a document is shown fileName is the name of the file whose
\* content produced rawJsonText and allLines, and a selection changes nothing
\* of the model, fileName included, before its read completes.
C20_NoPartialStateFromRead ==
  /\ [](displayLines # <<>> =>
          \E file \in Files :
            /\ fileName = file.name
            /\ JsonParse(file.content).ok
            /\ rawJsonText = Stringify2(JsonParse(file.content).v)
            /\ allLines = Project(DisplayFlatten(JsonParse(file.content).v)).lines)
  /\ [][(\E file \in Files : OnFileSelect(file)) =>
          UNCHANGED <<fileName, rawJsonText, textareaContent, allLines,
                      displayLines, editAllLines, editLines, isEditMode,
                      validationError, hasUnsavedChanges, isValidJson,
                      successMessage>>]_vars

(***************************************************************************)
(* Claims about entering and leaving edit mode (SpecLines).                *)
(***************************************************************************)
\* C21: toggleEditMode in edit mode never changes rawJsonText, allLines or
\* displayLines; declined with unsaved changes it changes nothing at all;
\* otherwise it leaves edit mode off, hasUnsavedChanges false,
\* validationError empty and the edit model empty.  Out of edit mode it
\* builds the edit model from rawJsonText, every container expanded, with
\* hasUnsavedChanges false.
C21_ToggleEditModeFrame ==
  /\ [](isEditMode /\ hasUnsavedChanges =>
          ~ENABLED (ToggleEditMode(FALSE) /\ vars' # vars))
  /\ [][\A confirmed \in BOOLEAN :
          ToggleEditMode(confirmed) =>
            IF isEditMode
            THEN /\ UNCHANGED <<rawJsonText, allLines, displayLines>>
                 /\ ~(hasUnsavedChanges /\ ~confirmed)
                 /\ ~isEditMode'
                 /\ ~hasUnsavedChanges'
                 /\ validationError' = ""
                 /\ editAllLines' = <<>>
                 /\ editLines' = <<>>
            ELSE /\ isEditMode'
                 /\ ~hasUnsavedChanges'
                 /\ UNCHANGED <<rawJsonText, allLines, displayLines>>
                 /\ IF JsonParse(rawJsonText).ok
                    THEN /\ FlatteningOf(editAllLines', Authoritative)
                         /\ Contents(editAllLines') = Contents(EditFlatten(Authoritative))
                         /\ AllExpanded(editAllLines')
                         /\ editLines' = [j \in 1..Len(editAllLines') |-> j]
                    ELSE editLines' = <<>>]_vars

\* Edit mode entered again while the display model has a collapsed
\* container: the edit model is fresh and fully expanded.
C21_Witness ==
  /\ FreshEditModel
  /\ ~hasUnsavedChanges
  /\ AllExpanded(editAllLines)
  /\ editLines = [j \in 1..Len(editAllLines) |-> j]
  /\ \E i \in OpenIndices(allLines) : allLines[i].isCollapsed

(***************************************************************************)
(* Claims about file reads during an edit session (SpecReads).             *)
(***************************************************************************)
\* C22: while isEditMode is true, rawJsonText and allLines change only
\* through a successful validateAndSave, which also ends edit mode; no other
\* event, the completion of a file read included, changes them.
C22_SingleWriterWhileEditing ==
  [][isEditMode =>
       \/ UNCHANGED <<rawJsonText, allLines>>
       \/ /\ ~isEditMode'
          /\ \E textarea \in EditTextareas : ValidateAndSave(textarea)]_vars

(***************************************************************************)
(* Claims about the validation indicators (SpecSave).                      *)
(***************************************************************************)
\* C23: in every reachable state isValidJson is false exactly when
\* validationError is non-empty.
C23_IndicatorsAgree == ~isValidJson <=> validationError # ""

(***************************************************************************)
(* Claims about bulk collapse and expand in edit mode (SpecLines).         *)
(***************************************************************************)
\* The edit model after collapseAll() and then expandAll(), both with an
\* edit textarea that is present and not blank.
AfterCollapseThenExpand ==
  Project(ExpandLines(Project(CollapseLines(editAllLines, TRUE)).lines, TRUE)).lines

\* C24: in every edit-mode state, collapseAll followed by expandAll leaves
\* the content of every line of the edit model as it was, and every
\* container expanded.
C24_CollapseExpandKeepsText ==
  isEditMode =>
    /\ Contents(AfterCollapseThenExpand) = Contents(editAllLines)
    /\ AllExpanded(AfterCollapseThenExpand)

=============================================================================
